---- MODULE Spec2Model ----
(***************************************************************************)
(* PythonServiceManager (src/python_service_manager.py): one supervising   *)
(* thread that spawns a worker process, waits for it to report healthy,    *)
(* monitors it, restarts it, and shuts it down on a signal or on exit.     *)
(*                                                                         *)
(* The supervisor is a single thread; its position is pc.  The signal      *)
(* handler of run() executes on that same thread between two of its steps  *)
(* and never returns to the interrupted code (it ends in sys.exit), so a   *)
(* signal is a step that redirects pc into shutdown().  The worker is a    *)
(* separate OS process: it may exit at any moment (WorkerExit) and the     *)
(* answer it gives to a health probe is chosen freely at every probe.      *)
(***************************************************************************)
EXTENDS Integers, FiniteSets, TLC

\* Bounds of the model.
MaxSpawn == 3      \* worker processes that Popen can create in one run
MaxSignals == 2    \* SIGINT/SIGTERM deliveries in one run
MaxExc == 1        \* unexpected exceptions raised by a library call in one run
MaxWait == 3       \* max_wait of wait_for_startup (30 in the source, scaled down)

None == 0
Workers == 1..MaxSpawn

VARIABLES
    process,        \* self.process: None or the handle of a spawned worker
    running,        \* self.running
    worker,         \* OS state of each worker: "unborn", "alive", "exited"
    reaped,         \* handles whose returncode is set (poll()/wait() saw the exit)
    pc,             \* position of the supervising thread
    caller,         \* who called start_service/wait_for_startup: "run", "died", "unhealthy"
    i,              \* loop index of wait_for_startup
    shCaller,       \* who called shutdown(): "none", "handler", "finally"
    inTry,          \* the interrupted/main code is inside run()'s try body
    pending,        \* what run() does after its finally: "none", "retFalse", "retTrue", "sysexit"
    sigCount,       \* signals delivered so far
    excCount,       \* unexpected exceptions raised so far
    termSent,       \* workers the supervisor has sent SIGTERM
    killSent,       \* workers the supervisor has sent SIGKILL
    signalled,      \* the OS signal the thread's latest step issued, if any
    shutdownCalls,  \* number of invocations of shutdown()
    log,            \* the failure and phase messages logged so far
    response,       \* outcome of the health request of the thread's latest step, if any
    health,         \* what check_health returned for it
    exitCode,       \* exit status of the supervisor process, -1 while it runs
    returned,       \* the call that the thread's latest step returned from, and its value
    raised,         \* where the exception raised by the thread's latest step was caught
    runner          \* the run of src/run_python_service.py: its position and its worker

vars == <<process, running, worker, reaped, pc, caller, i, shCaller, inTry,
          pending, sigCount, excCount, termSent, killSent, signalled,
          shutdownCalls, log, response, health, exitCode, returned, raised,
          runner>>

\* The variables of the PythonServiceManager run; the run of the other script
\* leaves them alone.
managerVars == <<process, running, worker, reaped, pc, caller, i, shCaller,
                 inTry, pending, sigCount, excCount, termSent, killSent,
                 signalled, shutdownCalls, log, response, health, exitCode,
                 returned, raised>>

----------------------------------------------------------------------------
\* check_health: the outcomes of requests.get and what the code makes of them.

Bodies == {"healthy", "unhealthy", "nostatus", "nonobject", "malformed"}
StatusCodes == {200, 204, 500}
NoResponse == [kind |-> "none", code |-> 0, body |-> "none"]
Refused == [kind |-> "refused", code |-> 0, body |-> "none"]
Timeout == [kind |-> "timeout", code |-> 0, body |-> "none"]
Responses == {Refused, Timeout} \cup [kind : {"response"}, code : StatusCodes, body : Bodies]

\* response.json(): a dict with a status, a dict without one, a non-dict value,
\* or a ValueError.
ParseJson(body) ==
    CASE body = "healthy"   -> [type |-> "dict", status |-> "healthy"]
      [] body = "unhealthy" -> [type |-> "dict", status |-> "unhealthy"]
      [] body = "nostatus"  -> [type |-> "dict", status |-> "None"]
      [] body = "nonobject" -> [type |-> "list", status |-> "None"]
      [] OTHER              -> [type |-> "error", status |-> "None"]

\* "raised" stands for an exception inside the try of check_health.
HealthAttempt(resp) ==
    IF resp.kind # "response" THEN "raised"
    ELSE IF resp.code = 200
         THEN LET data == ParseJson(resp.body)
              IN  IF data.type = "error" THEN "raised"
                  ELSE IF data.type # "dict" THEN "raised"
                  ELSE IF data.status = "healthy" THEN "True" ELSE "False"
         ELSE "False"

\* Faulty variant of check_health: any JSON object answered with 200 counts as
\* healthy (the status field is not compared).
check_health_AnyObject(resp) ==
    /\ resp.kind = "response"
    /\ resp.code = 200
    /\ ParseJson(resp.body).type = "dict"

check_health(resp) ==
    LET r == HealthAttempt(resp)
    IN  IF r = "raised" THEN FALSE ELSE r = "True"

\* What a probe can meet: nothing listens when no worker is alive.
ProbeOutcomes ==
    IF \E w \in Workers : worker[w] = "alive" THEN Responses ELSE {Refused}

----------------------------------------------------------------------------
\* Popen handle operations.

Spawned == Cardinality({w \in Workers : worker[w] # "unborn"})

\* Popen.poll(): sets returncode when the child has exited.
Poll(h) == IF h # None /\ worker[h] = "exited" THEN reaped \cup {h} ELSE reaped

Alive(h) == h # None /\ worker[h] = "alive"

NoSignal == [sig |-> "none", to |-> None]

\* No call returned in this step; otherwise fn is "start_service" or
\* "wait_for_startup" and val the boolean it returned.
NoReturn == [fn |-> "none", val |-> FALSE]

\* Popen.send_signal(sig) on handle h: poll(), then os.kill unless returncode
\* is set.  The signal that reaches the OS, if any.
SendSignal(h, sig) == IF Alive(h) THEN [sig |-> sig, to |-> h] ELSE NoSignal

\* src/run_python_service.py before its start_service() is called: no worker,
\* no health request made, nothing printed about it, no SIGINT received, no
\* terminate() issued.
RunnerIdle ==
    [pc |-> "idle", worker |-> "unborn", spawned |-> 0, probes |-> 0,
     report |-> "none", interrupts |-> 0, terminated |-> FALSE]

Init ==
    /\ process = None
    /\ running = FALSE
    /\ worker = [w \in Workers |-> "unborn"]
    /\ reaped = {}
    /\ pc = "idle"
    /\ caller = "run"
    /\ i = 0
    /\ shCaller = "none"
    /\ inTry = FALSE
    /\ pending = "none"
    /\ sigCount = 0
    /\ excCount = 0
    /\ termSent = {}
    /\ killSent = {}
    /\ signalled = NoSignal
    /\ shutdownCalls = 0
    /\ log = {}
    /\ response = NoResponse
    /\ health = FALSE
    /\ exitCode = -1
    /\ returned = NoReturn
    /\ raised = "none"
    /\ runner = RunnerIdle

----------------------------------------------------------------------------
\* Control transfers shared by the steps below.

Goto(p) == pc' = p /\ UNCHANGED <<caller, i, shCaller, inTry, pending>>

\* Faulty variant of EnterFinally: run() without its finally clause.
EnterFinally_NoCleanup(p) ==
    /\ pc' = "run_exit"
    /\ shCaller' = "none"
    /\ inTry' = FALSE
    /\ pending' = p
    /\ UNCHANGED <<caller, i>>

\* Leave run()'s try body for its finally clause (line 174-175), remembering
\* what follows the finally.
EnterFinally(p) ==
    /\ pc' = "sh_begin"
    /\ shCaller' = "finally"
    /\ inTry' = FALSE
    /\ pending' = p
    /\ UNCHANGED <<caller, i>>

\* start_service returned ret to its caller: run() gives up on False (line
\* 156-158); monitor_service ignores the result (lines 103, 114); then
\* wait_for_startup begins.
StartReturn(ret, msgs) ==
    /\ returned' = [fn |-> "start_service", val |-> ret]
    /\ IF caller = "run" /\ ~ret
       THEN /\ log' = log \cup msgs \cup {"Failed to start service"}
            /\ EnterFinally("retFalse")
       ELSE /\ log' = log \cup msgs
            /\ pc' = "ws_probe"
            /\ i' = 0
            /\ UNCHANGED <<caller, shCaller, inTry, pending>>

\* Faulty variant of WaitReturn: run() ignores the result of the startup wait and
\* enters monitor_service.
WaitReturn_StartupIgnored(ret, msgs) ==
    /\ returned' = [fn |-> "wait_for_startup", val |-> ret]
    /\ IF caller = "run"
       THEN /\ log' = log \cup msgs \cup
                       (IF ret THEN {} ELSE {"Service failed to become ready"})
                       \cup {"Starting service monitoring..."}
            /\ Goto("mon_loop")
       ELSE IF ret
            THEN /\ log' = log \cup msgs
                 /\ Goto("mon_sleep")
            ELSE /\ log' = log \cup msgs \cup {"Failed to restart service"}
                 /\ EnterFinally("retTrue")

\* Faulty variant of WaitReturn: the monitor logs a failed restart but does not break.
WaitReturn_NoBreak(ret, msgs) ==
    /\ returned' = [fn |-> "wait_for_startup", val |-> ret]
    /\ IF caller = "run"
       THEN IF ret
            THEN /\ log' = log \cup msgs \cup {"Starting service monitoring..."}
                 /\ Goto("mon_loop")
            ELSE /\ log' = log \cup msgs \cup {"Service failed to become ready"}
                 /\ EnterFinally("retFalse")
       ELSE /\ log' = log \cup msgs \cup
                       (IF ret THEN {} ELSE {"Failed to restart service"})
            /\ Goto("mon_sleep")

\* wait_for_startup returned ret to its caller: run() lines 161-170, or
\* monitor_service lines 104-106 and 115-117.
WaitReturn(ret, msgs) ==
    /\ returned' = [fn |-> "wait_for_startup", val |-> ret]
    /\ IF caller = "run"
       THEN IF ret
            THEN /\ log' = log \cup msgs \cup {"Starting service monitoring..."}
                 /\ Goto("mon_loop")
            ELSE /\ log' = log \cup msgs \cup {"Service failed to become ready"}
                 /\ EnterFinally("retFalse")
       ELSE IF ret
            THEN /\ log' = log \cup msgs
                 /\ Goto("mon_sleep")
            ELSE /\ log' = log \cup msgs \cup {"Failed to restart service"}
                 /\ EnterFinally("retTrue")

----------------------------------------------------------------------------
\* run(), lines 141-156: set the flag, install the handlers, enter the try.
RunBegin ==
    /\ pc = "idle"
    /\ runner = RunnerIdle
    /\ signalled' = NoSignal
    /\ response' = NoResponse
    /\ health' = FALSE
    /\ returned' = NoReturn
    /\ raised' = "none"
    /\ running' = TRUE
    /\ inTry' = TRUE
    /\ pc' = "ss_check"
    /\ caller' = "run"
    /\ UNCHANGED <<runner, process, worker, reaped, i, shCaller, pending, sigCount,
                   excCount, termSent, killSent, shutdownCalls, log, exitCode>>

\* Faulty variant of StartCheck: no test for a live handle before spawning.
StartCheck_NoLiveTest ==
    /\ pc = "ss_check"
    /\ signalled' = NoSignal
    /\ response' = NoResponse
    /\ health' = FALSE
    /\ raised' = "none"
    /\ reaped' = Poll(process)
    /\ \E exists \in BOOLEAN :
          IF exists
          THEN log' = log /\ Goto("ss_popen") /\ returned' = NoReturn
          ELSE StartReturn(FALSE, {})
    /\ UNCHANGED <<runner, process, running, worker, sigCount, excCount, termSent,
                   killSent, shutdownCalls, exitCode>>

\* start_service, lines 37-46: the live-handle test, then the script test.
StartCheck ==
    /\ pc = "ss_check"
    /\ signalled' = NoSignal
    /\ response' = NoResponse
    /\ health' = FALSE
    /\ raised' = "none"
    /\ reaped' = Poll(process)
    /\ IF Alive(process)
       THEN StartReturn(TRUE, {})
       ELSE \E exists \in BOOLEAN :
               IF exists
               THEN log' = log /\ Goto("ss_popen") /\ returned' = NoReturn
               ELSE StartReturn(FALSE, {})
    /\ UNCHANGED <<runner, process, running, worker, sigCount, excCount, termSent,
                   killSent, shutdownCalls, exitCode>>

\* Faulty variant of StartPopen: the except clause also drops the handle
\* (self.process = None).
StartPopen_ClearsHandle ==
    /\ pc = "ss_popen"
    /\ signalled' = NoSignal
    /\ response' = NoResponse
    /\ health' = FALSE
    /\ \/ /\ Spawned < MaxSpawn
          /\ worker' = [worker EXCEPT ![Spawned + 1] = "alive"]
          /\ process' = process
          /\ log' = log
          /\ Goto("ss_assign")
          /\ returned' = NoReturn
          /\ raised' = "none"
       \/ /\ worker' = worker
          /\ process' = None
          /\ StartReturn(FALSE, {})
          /\ raised' = "start_service"
    /\ UNCHANGED <<runner, running, reaped, sigCount, excCount, termSent,
                   killSent, shutdownCalls, exitCode>>

\* start_service, line 49 right-hand side: Popen creates the child, or raises
\* and the except of line 61 returns False.
StartPopen ==
    /\ pc = "ss_popen"
    /\ signalled' = NoSignal
    /\ response' = NoResponse
    /\ health' = FALSE
    /\ \/ /\ Spawned < MaxSpawn
          /\ worker' = [worker EXCEPT ![Spawned + 1] = "alive"]
          /\ log' = log
          /\ Goto("ss_assign")
          /\ returned' = NoReturn
          /\ raised' = "none"
       \/ /\ worker' = worker
          /\ StartReturn(FALSE, {})
          /\ raised' = "start_service"
    /\ UNCHANGED <<runner, process, running, reaped, sigCount, excCount, termSent,
                   killSent, shutdownCalls, exitCode>>

\* start_service, lines 49-59: the store into self.process, then return True.
StartAssign ==
    /\ pc = "ss_assign"
    /\ signalled' = NoSignal
    /\ response' = NoResponse
    /\ health' = FALSE
    /\ raised' = "none"
    /\ process' = Spawned
    /\ StartReturn(TRUE, {})
    /\ UNCHANGED <<runner, running, worker, reaped, sigCount, excCount, termSent,
                   killSent, shutdownCalls, exitCode>>

\* Faulty variant of WaitProbe: a healthy probe does not end the loop, which
\* sleeps on.
WaitProbe_WaitsOut ==
    /\ pc = "ws_probe"
    /\ signalled' = NoSignal
    /\ raised' = "none"
    /\ returned' = NoReturn
    /\ log' = log
    /\ \E r \in ProbeOutcomes :
          /\ response' = r
          /\ health' = check_health(r)
          /\ IF check_health(r) THEN Goto("ws_sleep") ELSE Goto("ws_poll")
    /\ UNCHANGED <<runner, process, running, worker, reaped, sigCount, excCount,
                   termSent, killSent, shutdownCalls, exitCode>>

\* wait_for_startup, lines 80-83: one probe of the loop.
WaitProbe ==
    /\ pc = "ws_probe"
    /\ signalled' = NoSignal
    /\ raised' = "none"
    /\ \E r \in ProbeOutcomes :
          /\ response' = r
          /\ health' = check_health(r)
          /\ IF check_health(r)
             THEN WaitReturn(TRUE, {})
             ELSE log' = log /\ Goto("ws_poll") /\ returned' = NoReturn
    /\ UNCHANGED <<runner, process, running, worker, reaped, sigCount, excCount,
                   termSent, killSent, shutdownCalls, exitCode>>

\* Faulty variant of WaitPoll: the exit of the process is not looked at.
WaitPoll_IgnoresExit ==
    /\ pc = "ws_poll"
    /\ signalled' = NoSignal
    /\ response' = NoResponse
    /\ health' = FALSE
    /\ raised' = "none"
    /\ returned' = NoReturn
    /\ reaped' = reaped
    /\ log' = log
    /\ Goto("ws_sleep")
    /\ UNCHANGED <<runner, process, running, worker, sigCount, excCount, termSent,
                   killSent, shutdownCalls, exitCode>>

\* wait_for_startup, lines 85-87: the non-blocking poll of the handle.
WaitPoll ==
    /\ pc = "ws_poll"
    /\ signalled' = NoSignal
    /\ response' = NoResponse
    /\ health' = FALSE
    /\ raised' = "none"
    /\ reaped' = Poll(process)
    /\ IF process # None /\ worker[process] = "exited"
       THEN WaitReturn(FALSE, {})
       ELSE log' = log /\ Goto("ws_sleep") /\ returned' = NoReturn
    /\ UNCHANGED <<runner, process, running, worker, sigCount, excCount, termSent,
                   killSent, shutdownCalls, exitCode>>

\* Faulty variant of WaitSleep: one round too many (range(max_wait + 1)).
WaitSleep_OffByOne ==
    /\ pc = "ws_sleep"
    /\ signalled' = NoSignal
    /\ response' = NoResponse
    /\ health' = FALSE
    /\ raised' = "none"
    /\ IF i + 1 <= MaxWait
       THEN /\ i' = i + 1
            /\ pc' = "ws_probe"
            /\ log' = log
            /\ returned' = NoReturn
            /\ UNCHANGED <<caller, shCaller, inTry, pending>>
       ELSE WaitReturn(FALSE, {})
    /\ UNCHANGED <<runner, process, running, worker, reaped, sigCount, excCount,
                   termSent, killSent, shutdownCalls, exitCode>>

\* wait_for_startup, lines 89-92: sleep(1), next round or timeout.
WaitSleep ==
    /\ pc = "ws_sleep"
    /\ signalled' = NoSignal
    /\ response' = NoResponse
    /\ health' = FALSE
    /\ raised' = "none"
    /\ IF i + 1 < MaxWait
       THEN /\ i' = i + 1
            /\ pc' = "ws_probe"
            /\ log' = log
            /\ returned' = NoReturn
            /\ UNCHANGED <<caller, shCaller, inTry, pending>>
       ELSE WaitReturn(FALSE, {})
    /\ UNCHANGED <<runner, process, running, worker, reaped, sigCount, excCount,
                   termSent, killSent, shutdownCalls, exitCode>>

----------------------------------------------------------------------------
\* monitor_service.

\* line 98: the loop test; when it fails the function returns into run()'s
\* finally.
MonLoop ==
    /\ pc = "mon_loop"
    /\ signalled' = NoSignal
    /\ response' = NoResponse
    /\ health' = FALSE
    /\ returned' = NoReturn
    /\ raised' = "none"
    /\ IF running THEN Goto("mon_poll") ELSE EnterFinally("retTrue")
    /\ UNCHANGED <<runner, process, running, worker, reaped, sigCount, excCount,
                   termSent, killSent, shutdownCalls, log,
                   exitCode>>

\* lines 101-103: the worker has exited: restart it.
MonPoll ==
    /\ pc = "mon_poll"
    /\ signalled' = NoSignal
    /\ response' = NoResponse
    /\ health' = FALSE
    /\ returned' = NoReturn
    /\ raised' = "none"
    /\ reaped' = Poll(process)
    /\ IF process # None /\ worker[process] = "exited"
       THEN /\ log' = log
            /\ pc' = "ss_check"
            /\ caller' = "died"
            /\ UNCHANGED <<i, shCaller, inTry, pending>>
       ELSE log' = log /\ Goto("mon_probe")
    /\ UNCHANGED <<runner, process, running, worker, sigCount, excCount, termSent,
                   killSent, shutdownCalls, exitCode>>

\* Faulty variant of MonProbe: check_health lets the timeout of the request
\* escape, and the probe ends in the loop's exception handler.
MonProbe_TimeoutEscapes ==
    /\ pc = "mon_probe"
    /\ signalled' = NoSignal
    /\ returned' = NoReturn
    /\ \E r \in ProbeOutcomes :
          /\ response' = r
          /\ health' = check_health(r)
          /\ IF r = Timeout
             THEN /\ log' = log \cup {"Monitor error"}
                  /\ raised' = "monitor_service"
                  /\ Goto("mon_except")
             ELSE /\ log' = log
                  /\ raised' = "none"
                  /\ IF check_health(r)
                     THEN Goto("mon_sleep")
                     ELSE Goto("mon_term")
    /\ UNCHANGED <<runner, process, running, worker, reaped, sigCount, excCount,
                   termSent, killSent, shutdownCalls, exitCode>>

\* lines 109-111: the periodic health probe.
MonProbe ==
    /\ pc = "mon_probe"
    /\ signalled' = NoSignal
    /\ returned' = NoReturn
    /\ raised' = "none"
    /\ \E r \in ProbeOutcomes :
          /\ response' = r
          /\ health' = check_health(r)
          /\ IF check_health(r)
             THEN log' = log /\ Goto("mon_sleep")
             ELSE /\ log' = log
                  /\ Goto("mon_term")
    /\ UNCHANGED <<runner, process, running, worker, reaped, sigCount, excCount,
                   termSent, killSent, shutdownCalls, exitCode>>

\* lines 111-112: terminate() of the unhealthy worker.  Popen.send_signal polls
\* first and sends nothing to a child whose returncode is set.
MonTerminate ==
    /\ pc = "mon_term"
    /\ reaped' = Poll(process)
    /\ response' = NoResponse
    /\ health' = FALSE
    /\ returned' = NoReturn
    /\ raised' = "none"
    /\ signalled' = SendSignal(process, "SIGTERM")
    /\ termSent' = (termSent \cup {signalled'.to}) \ {None}
    /\ Goto("mon_grace")
    /\ UNCHANGED <<runner, process, running, worker, sigCount, excCount, killSent,
                   shutdownCalls, log, exitCode>>

\* lines 113-114: sleep(2), then start_service().
MonGrace ==
    /\ pc = "mon_grace"
    /\ signalled' = NoSignal
    /\ response' = NoResponse
    /\ health' = FALSE
    /\ returned' = NoReturn
    /\ raised' = "none"
    /\ pc' = "ss_check"
    /\ caller' = "unhealthy"
    /\ UNCHANGED <<runner, process, running, worker, reaped, i, shCaller, inTry,
                   pending, sigCount, excCount, termSent, killSent,
                   shutdownCalls, log, exitCode>>

\* line 119: sleep(10) and back to the loop test.
MonSleep ==
    /\ pc = "mon_sleep"
    /\ signalled' = NoSignal
    /\ response' = NoResponse
    /\ health' = FALSE
    /\ returned' = NoReturn
    /\ raised' = "none"
    /\ Goto("mon_loop")
    /\ UNCHANGED <<runner, process, running, worker, reaped, sigCount, excCount,
                   termSent, killSent, shutdownCalls, log,
                   exitCode>>

\* Faulty variant of MonExcept: the handler leaves the loop (break).
MonExcept_Breaks ==
    /\ pc = "mon_except"
    /\ signalled' = NoSignal
    /\ response' = NoResponse
    /\ health' = FALSE
    /\ returned' = NoReturn
    /\ raised' = "none"
    /\ EnterFinally("retTrue")
    /\ UNCHANGED <<runner, process, running, worker, reaped, sigCount, excCount,
                   termSent, killSent, shutdownCalls, log,
                   exitCode>>

\* lines 124-126: the handler of an unexpected exception: sleep(5), loop on.
MonExcept ==
    /\ pc = "mon_except"
    /\ signalled' = NoSignal
    /\ response' = NoResponse
    /\ health' = FALSE
    /\ returned' = NoReturn
    /\ raised' = "none"
    /\ Goto("mon_loop")
    /\ UNCHANGED <<runner, process, running, worker, reaped, sigCount, excCount,
                   termSent, killSent, shutdownCalls, log,
                   exitCode>>

\* The thread is inside the try of monitor_service's loop body.
InMonitorTry ==
    \/ pc \in {"mon_poll", "mon_probe", "mon_term", "mon_grace", "mon_sleep"}
    \/ pc \in {"ws_probe", "ws_poll", "ws_sleep"} /\ caller # "run"

\* The thread is in run()'s try body but not under monitor_service's try (the
\* try of start_service catches its own exceptions).
InRunTryOnly == pc \in {"ws_probe", "ws_poll", "ws_sleep"} /\ caller = "run"

\* An operation on the process handle raises an exception nobody expected:
\* caught at monitor_service line 124, or else at run() line 172.
RaiseUnexpected ==
    /\ excCount < MaxExc
    /\ signalled' = NoSignal
    /\ response' = NoResponse
    /\ health' = FALSE
    /\ returned' = NoReturn
    /\ shCaller = "none"
    /\ excCount' = excCount + 1
    /\ \/ /\ InMonitorTry
          /\ pc \in {"mon_poll", "mon_term", "ws_poll"}
          /\ log' = log \cup {"Monitor error"}
          /\ Goto("mon_except")
          /\ raised' = "monitor_service"
       \/ /\ InRunTryOnly
          /\ pc = "ws_poll"
          /\ log' = log \cup {"Service manager error"}
          /\ EnterFinally("retTrue")
          /\ raised' = "run"
    /\ UNCHANGED <<runner, process, running, worker, reaped, sigCount, termSent,
                   killSent, shutdownCalls, exitCode>>

----------------------------------------------------------------------------
\* shutdown(), the signal handler, and the end of run().

\* Faulty variant of ShutdownReturn: the handler has no sys.exit(0) and returns
\* into an interrupted start_service, which goes on to Popen.
ShutdownReturn_HandlerReturns ==
    IF shCaller = "handler"
    THEN IF inTry
         THEN /\ pc' = "ss_popen"
              /\ shCaller' = "none"
              /\ exitCode' = exitCode
              /\ UNCHANGED <<caller, i, inTry, pending>>
         ELSE /\ pc' = "stopped"
              /\ exitCode' = 0
              /\ UNCHANGED <<caller, i, shCaller, inTry, pending>>
    ELSE /\ pc' = "run_exit"
         /\ shCaller' = "none"
         /\ exitCode' = exitCode
         /\ UNCHANGED <<caller, i, inTry, pending>>

\* shutdown() returned.  In the handler, sys.exit(0) follows (line 149): the
\* SystemExit passes no except clause of the file; it runs run()'s finally when
\* the interrupted code was inside the try body, and ends the process with
\* status 0.  In the finally, run() goes on to what was pending.
ShutdownReturn ==
    IF shCaller = "handler"
    THEN IF inTry
         THEN /\ EnterFinally("sysexit")
              /\ exitCode' = exitCode
         ELSE /\ pc' = "stopped"
              /\ exitCode' = 0
              /\ UNCHANGED <<caller, i, shCaller, inTry, pending>>
    ELSE /\ pc' = "run_exit"
         /\ shCaller' = "none"
         /\ exitCode' = exitCode
         /\ UNCHANGED <<caller, i, inTry, pending>>

\* lines 130-132: clear the flag, test the handle.
ShutdownBegin ==
    /\ pc = "sh_begin"
    /\ signalled' = NoSignal
    /\ response' = NoResponse
    /\ health' = FALSE
    /\ returned' = NoReturn
    /\ raised' = "none"
    /\ running' = FALSE
    /\ shutdownCalls' = shutdownCalls + 1
    /\ IF process # None
       THEN /\ log' = log
            /\ Goto("sh_term")
            /\ exitCode' = exitCode
       ELSE /\ log' = log
            /\ ShutdownReturn
    /\ UNCHANGED <<runner, process, worker, reaped, sigCount, excCount, termSent,
                   killSent>>

\* Faulty variant of ShutdownTerminate: the signal goes to the pid whatever the
\* handle's returncode (os.kill instead of Popen.terminate).
ShutdownTerminate_RawKill ==
    /\ pc = "sh_term"
    /\ reaped' = Poll(process)
    /\ response' = NoResponse
    /\ health' = FALSE
    /\ returned' = NoReturn
    /\ raised' = "none"
    /\ signalled' = [sig |-> "SIGTERM", to |-> process]
    /\ termSent' = termSent \cup {process}
    /\ Goto("sh_wait")
    /\ UNCHANGED <<runner, process, running, worker, sigCount, excCount, killSent,
                   shutdownCalls, log, exitCode>>

\* line 133: terminate().  Popen.send_signal polls first and sends nothing to
\* a child whose returncode is set.
ShutdownTerminate ==
    /\ pc = "sh_term"
    /\ reaped' = Poll(process)
    /\ response' = NoResponse
    /\ health' = FALSE
    /\ returned' = NoReturn
    /\ raised' = "none"
    /\ signalled' = SendSignal(process, "SIGTERM")
    /\ termSent' = (termSent \cup {signalled'.to}) \ {None}
    /\ Goto("sh_wait")
    /\ UNCHANGED <<runner, process, running, worker, sigCount, excCount, killSent,
                   shutdownCalls, log, exitCode>>

\* lines 134-136: wait(timeout=10): the worker has exited by the end of the
\* wait, or TimeoutExpired is raised.
ShutdownWait ==
    /\ pc = "sh_wait"
    /\ signalled' = NoSignal
    /\ response' = NoResponse
    /\ health' = FALSE
    /\ returned' = NoReturn
    /\ raised' = "none"
    /\ reaped' = Poll(process)
    /\ IF Alive(process)
       THEN /\ Goto("sh_kill")
            /\ log' = log
            /\ exitCode' = exitCode
       ELSE /\ log' = log
            /\ ShutdownReturn
    /\ UNCHANGED <<runner, process, running, worker, sigCount, excCount, termSent,
                   killSent, shutdownCalls>>

\* Faulty variant of ShutdownKill: the timeout branch sends SIGTERM again instead of
\* SIGKILL, which the worker may go on ignoring.
ShutdownKill_TermAgain ==
    /\ pc = "sh_kill"
    /\ reaped' = Poll(process)
    /\ response' = NoResponse
    /\ health' = FALSE
    /\ returned' = NoReturn
    /\ raised' = "none"
    /\ signalled' = SendSignal(process, "SIGTERM")
    /\ termSent' = (termSent \cup {signalled'.to}) \ {None}
    /\ Goto("sh_reap")
    /\ UNCHANGED <<runner, process, running, worker, sigCount, excCount, killSent,
                   shutdownCalls, log, exitCode>>

\* line 137: kill().  SIGKILL cannot be caught: the worker is gone once it is
\* sent.
ShutdownKill ==
    /\ pc = "sh_kill"
    /\ reaped' = Poll(process)
    /\ response' = NoResponse
    /\ health' = FALSE
    /\ returned' = NoReturn
    /\ raised' = "none"
    /\ signalled' = SendSignal(process, "SIGKILL")
    /\ killSent' = (killSent \cup {signalled'.to}) \ {None}
    /\ worker' = [w \in Workers |->
                     IF w = signalled'.to THEN "exited" ELSE worker[w]]
    /\ Goto("sh_reap")
    /\ UNCHANGED <<runner, process, running, sigCount, excCount, termSent,
                   shutdownCalls, log, exitCode>>

\* lines 138-139: wait() for the killed worker.
ShutdownReap ==
    /\ pc = "sh_reap"
    /\ signalled' = NoSignal
    /\ response' = NoResponse
    /\ health' = FALSE
    /\ returned' = NoReturn
    /\ raised' = "none"
    /\ worker[process] = "exited"
    /\ reaped' = Poll(process)
    /\ log' = log
    /\ ShutdownReturn
    /\ UNCHANGED <<runner, process, running, worker, sigCount, excCount, termSent,
                   killSent, shutdownCalls>>

\* lines 146-149: SIGINT or SIGTERM arrives once the handlers are installed;
\* the handler runs on the supervising thread, on top of whatever it was doing.
Signal ==
    /\ pc \notin {"idle", "stopped"}
    /\ signalled' = NoSignal
    /\ response' = NoResponse
    /\ health' = FALSE
    /\ returned' = NoReturn
    /\ raised' = "none"
    /\ sigCount < MaxSignals
    /\ sigCount' = sigCount + 1
    /\ log' = log
    /\ pc' = "sh_begin"
    /\ shCaller' = "handler"
    /\ UNCHANGED <<runner, process, running, worker, reaped, caller, i, inTry, pending,
                   excCount, termSent, killSent, shutdownCalls, exitCode>>

\* lines 158, 163, 177 and 181-182: run() returns and the process exits with
\* 0 for True and 1 for False; a pending SystemExit(0) ends it with 0.
RunExit ==
    /\ pc = "run_exit"
    /\ signalled' = NoSignal
    /\ response' = NoResponse
    /\ health' = FALSE
    /\ returned' = NoReturn
    /\ raised' = "none"
    /\ pc' = "stopped"
    /\ exitCode' = IF pending = "retFalse" THEN 1 ELSE 0
    /\ UNCHANGED <<runner, process, running, worker, reaped, caller, i, shCaller,
                   inTry, pending, sigCount, excCount, termSent, killSent,
                   shutdownCalls, log>>

----------------------------------------------------------------------------
\* The worker process exits: it crashes, finishes, or obeys a SIGTERM.
WorkerExit ==
    \E w \in Workers :
       /\ worker[w] = "alive"
       /\ worker' = [worker EXCEPT ![w] = "exited"]
       /\ UNCHANGED <<runner, process, running, reaped, pc, caller, i, shCaller, inTry,
                      pending, sigCount, excCount, termSent, killSent,
                      signalled, shutdownCalls, log, response, health,
                      exitCode, returned, raised>>

----------------------------------------------------------------------------
\* src/run_python_service.py: start_service() is called once by __main__.  A
\* run of the model executes one of the two scripts: the steps below start
\* only when PythonServiceManager.run() has not, and conversely.

\* lines 41-51: what the single health request prints.  Status 200 prints
\* "health check passed" whatever the payload says; a payload that is not
\* JSON or not an object then raises inside the inner try.
RunnerReport(resp) ==
    IF resp.kind # "response" THEN "error"
    ELSE IF resp.code = 200
         THEN IF ParseJson(resp.body).type = "dict"
              THEN "passed"
              ELSE "passed_then_error"
         ELSE "failed"

\* What the request can meet: nothing listens when the worker is not alive.
RunnerProbeOutcomes ==
    IF runner.worker = "alive" THEN Responses ELSE {Refused}

\* lines 15-29: chdir and Popen; an exception of either is caught at line 67
\* and start_service() returns.
RunnerPopen ==
    /\ pc = "idle"
    /\ runner.pc = "idle"
    /\ \/ /\ runner.spawned < MaxSpawn
          /\ runner' = [runner EXCEPT !.pc = "rs_sleep",
                                      !.worker = "alive",
                                      !.spawned = @ + 1]
       \/ runner' = [runner EXCEPT !.pc = "rs_done"]
    /\ UNCHANGED managerVars

\* line 32: sleep(3).
RunnerSleep ==
    /\ runner.pc = "rs_sleep"
    /\ runner' = [runner EXCEPT !.pc = "rs_poll"]
    /\ UNCHANGED managerVars

\* lines 35 and 61: is the worker still running after the sleep?
RunnerPoll ==
    /\ runner.pc = "rs_poll"
    /\ runner' = [runner EXCEPT
                    !.pc = IF runner.worker = "alive"
                           THEN "rs_probe" ELSE "rs_communicate"]
    /\ UNCHANGED managerVars

\* lines 39-51: one health request, whose outcome is printed and nothing else.
RunnerProbe ==
    /\ runner.pc = "rs_probe"
    /\ \E r \in RunnerProbeOutcomes :
          runner' = [runner EXCEPT !.pc = "rs_wait",
                                   !.probes = @ + 1,
                                   !.report = RunnerReport(r)]
    /\ UNCHANGED managerVars

\* Faulty variant of RunnerWait: when the worker has exited it is spawned
\* again.
RunnerWait_Restarts ==
    /\ runner.pc = "rs_wait"
    /\ runner.worker = "exited"
    /\ IF runner.spawned < MaxSpawn
       THEN runner' = [runner EXCEPT !.pc = "rs_sleep",
                                     !.worker = "alive",
                                     !.spawned = @ + 1]
       ELSE runner' = [runner EXCEPT !.pc = "rs_done"]
    /\ UNCHANGED managerVars

\* line 55: process.wait() without a timeout returns when the worker has
\* exited, and start_service() returns.
RunnerWait ==
    /\ runner.pc = "rs_wait"
    /\ runner.worker = "exited"
    /\ runner' = [runner EXCEPT !.pc = "rs_done"]
    /\ UNCHANGED managerVars

\* line 58: terminate() after the KeyboardInterrupt caught at line 56.
RunnerTerminate ==
    /\ runner.pc = "rs_term"
    /\ runner' = [runner EXCEPT !.pc = "rs_wait_term",
                                !.terminated = (runner.worker = "alive")]
    /\ UNCHANGED managerVars

\* line 59: the second process.wait(), again without a timeout.
RunnerWaitTerminated ==
    /\ runner.pc = "rs_wait_term"
    /\ runner.worker = "exited"
    /\ runner' = [runner EXCEPT !.pc = "rs_done"]
    /\ UNCHANGED managerVars

\* lines 62-65: communicate() with the worker that exited during the sleep.
RunnerCommunicate ==
    /\ runner.pc = "rs_communicate"
    /\ runner' = [runner EXCEPT !.pc = "rs_done"]
    /\ UNCHANGED managerVars

\* SIGINT: Python raises KeyboardInterrupt in the main thread.  Line 56
\* catches it around the first wait(); anywhere else it passes the
\* `except Exception` of lines 50 and 67 and ends the script.
RunnerInterrupt ==
    /\ runner.pc \notin {"idle", "rs_done"}
    /\ runner.interrupts < MaxSignals
    /\ runner' = [runner EXCEPT
                    !.interrupts = @ + 1,
                    !.pc = IF runner.pc = "rs_wait"
                           THEN "rs_term" ELSE "rs_done"]
    /\ UNCHANGED managerVars

\* The worker of the script exits: it crashes, finishes, or obeys SIGTERM.
RunnerWorkerExit ==
    /\ runner.worker = "alive"
    /\ runner' = [runner EXCEPT !.worker = "exited"]
    /\ UNCHANGED managerVars

\* The steps of the script's own thread.
Runner ==
    \/ RunnerPopen
    \/ RunnerSleep
    \/ RunnerPoll
    \/ RunnerProbe
    \/ RunnerWait
    \/ RunnerTerminate
    \/ RunnerWaitTerminated
    \/ RunnerCommunicate

\* The steps of the supervising thread itself.
Supervisor ==
    \/ RunBegin
    \/ StartCheck
    \/ StartPopen
    \/ StartAssign
    \/ WaitProbe
    \/ WaitPoll
    \/ WaitSleep
    \/ MonLoop
    \/ MonPoll
    \/ MonProbe
    \/ MonTerminate
    \/ MonGrace
    \/ MonSleep
    \/ MonExcept
    \/ ShutdownBegin
    \/ ShutdownTerminate
    \/ ShutdownWait
    \/ ShutdownKill
    \/ ShutdownReap
    \/ RunExit

Next ==
    \/ Supervisor
    \/ Signal
    \/ RaiseUnexpected
    \/ WorkerExit
    \/ Runner
    \/ RunnerInterrupt
    \/ RunnerWorkerExit

Spec == Init /\ [][Next]_vars

\* The supervising thread is never blocked for ever: every sleep, probe and
\* wait of the file is bounded, and the one unbounded wait() follows a SIGKILL.
\* The thread of run_python_service.py takes its step whenever it has one; in
\* its wait() calls it has none until the worker exits.
LiveSpec == Spec /\ WF_vars(Supervisor) /\ WF_vars(Runner)

----------------------------------------------------------------------------
\* Vocabulary of the properties.

LiveWorkers == {w \in Workers : worker[w] = "alive"}
ShutdownPCs == {"sh_begin", "sh_term", "sh_wait", "sh_kill", "sh_reap"}
WaitPCs == {"ws_probe", "ws_poll", "ws_sleep"}
MonitorPCs == {"mon_loop", "mon_poll", "mon_probe", "mon_term", "mon_grace",
               "mon_sleep", "mon_except"}
FailureMessages == {"Failed to start service", "Service failed to become ready",
                    "Failed to restart service"}
Stopped == pc = "stopped"

\* C1: in every reachable state at most one worker process spawned by the
\* supervisor is alive (so start_service never spawns a worker while an
\* earlier one still lives), whatever crashes, failed probes, restarts and
\* shutdowns came before.
C1_AtMostOneLiveWorker == Cardinality(LiveWorkers) <= 1

\* A second worker runs after the first was sent SIGTERM for a failed probe
\* and exited.
C1_Witness ==
    /\ worker[1] = "exited"
    /\ 1 \in termSent
    /\ worker[2] = "alive"
    /\ process = 2

\* C2 (as claimed): when run() has ended without a signal or an unexpected
\* exception and a launch, a startup wait or a restart failed, the supervisor
\* process exits non-zero.
C2_FailureExitsNonZero ==
    (Stopped /\ sigCount = 0 /\ excCount = 0 /\ log \cap FailureMessages # {})
        => exitCode # 0

\* C3: whenever run() has ended (by a failed start, a failed startup wait, the
\* monitor loop's exit, an exception or a signal), shutdown() has been
\* executed: it was invoked and it cleared the running flag.
C3_ShutdownBeforeRunEnds ==
    pc \in {"run_exit", "stopped"} => shutdownCalls >= 1 /\ ~running

\* run() ended after the monitor loop gave up on a failed restart.
C3_Witness ==
    /\ Stopped
    /\ sigCount = 0
    /\ "Failed to restart service" \in log

\* C4: when start_service succeeded and the startup wait failed, and no signal
\* arrived, run() returns False (exit status 1), never entered
\* monitor_service, and ran the terminate/kill cleanup on the spawned worker
\* exactly once, leaving it exited and reaped.
C4_StartupFailureCleansUpOnce ==
    (Stopped /\ sigCount = 0 /\ "Service failed to become ready" \in log)
        => /\ exitCode = 1
           /\ "Starting service monitoring..." \notin log
           /\ shutdownCalls = 1
           /\ process # None
           /\ worker[process] = "exited"
           /\ process \in reaped
           /\ killSent \subseteq termSent

\* The startup window ran out on a worker that stayed alive and ignored
\* SIGTERM, so the cleanup had to kill it.
C4_Witness ==
    /\ Stopped
    /\ sigCount = 0
    /\ "Service failed to become ready" \in log
    /\ process \in killSent

\* C5: a step of shutdown() that finds no handle, or a handle already reaped,
\* issues no SIGTERM and no SIGKILL and does not take the kill branch; it only
\* runs to its end.
C5_ShutdownIdempotent ==
    [][(pc \in ShutdownPCs /\ (process = None \/ process \in reaped))
          => /\ signalled' = NoSignal
             /\ termSent' = termSent
             /\ killSent' = killSent
             /\ pc' # "sh_kill"]_vars

\* A second shutdown() (the finally after the handler) is past its terminate()
\* on a worker the first one reaped.
C5_Witness ==
    /\ shutdownCalls >= 2
    /\ pc = "sh_wait"
    /\ process \in reaped
    /\ process \in termSent

\* The monitor loop is running and the worker it supervises has exited.
MonitoringDead ==
    /\ pc \in MonitorPCs
    /\ shCaller = "none"
    /\ running
    /\ process # None
    /\ worker[process] = "exited"

\* wait_for_startup has just been entered from monitor_service, which is where
\* the return of start_service leads.
RestartWaitBegun ==
    /\ pc = "ws_probe"
    /\ i = 0
    /\ caller # "run"
    /\ shCaller = "none"

\* C6: while the monitor loop runs and the worker has exited, the supervisor
\* goes on to call start_service and then wait_for_startup, unless a signal
\* requests shutdown first; and a wait_for_startup called by the monitor is
\* left for the monitoring sleep exactly when its probe was healthy (it
\* returned True), and otherwise only for shutdown or the exception handler.
C6_DeadWorkerIsRestarted ==
    /\ MonitoringDead ~> (RestartWaitBegun \/ shCaller # "none")
    /\ [][(pc \in WaitPCs /\ caller # "run" /\ shCaller = "none"
              /\ pc' \notin WaitPCs)
            => /\ (pc' = "mon_sleep") <=> (pc = "ws_probe" /\ health')
               /\ pc' \in {"mon_sleep", "sh_begin", "mon_except"}]_vars

\* The monitor is back in its sleep with a second worker after the first one
\* died.
C6_Witness ==
    /\ pc = "mon_sleep"
    /\ caller = "died"
    /\ worker[1] = "exited"
    /\ process = 2
    /\ shCaller = "none"

\* C7 (as claimed): SIGKILL only ever follows SIGTERM; when the bounded wait
\* of shutdown() ends, the kill branch is taken exactly when the worker is
\* still alive; and when the grace period of the monitor's unhealthy-restart
\* step ends with the worker still alive, the worker is sent SIGKILL.
C7_TwoPhaseTermination ==
    [][/\ killSent' \subseteq termSent'
       /\ (pc = "sh_wait" /\ pc' = "sh_kill") => Alive(process)
       /\ (pc = "sh_wait" /\ pc' \notin {"sh_wait", "sh_begin"} /\ Alive(process))
             => pc' = "sh_kill"
       /\ (pc = "mon_grace" /\ pc' = "ss_check" /\ Alive(process))
             => process \in killSent']_vars

\* C8 (as claimed): once the supervisor has stopped, no worker it spawned is
\* alive.
C8_NoWorkerOutlivesSupervisor == Stopped => LiveWorkers = {}

\* C9: after a signal has been received, in whatever state, the supervisor
\* eventually is stopped with shutdown() invoked, also when the worker does
\* not obey SIGTERM.
C9_SignalLeadsToStopped == (sigCount > 0) ~> (Stopped /\ shutdownCalls > 0)

\* Stopped after a signal, the worker having been killed because it outlived
\* the wait that followed SIGTERM.
C9_Witness ==
    /\ Stopped
    /\ sigCount > 0
    /\ killSent # {}

\* C10: check_health returns True exactly for a completed request with status
\* code 200 and a JSON object whose status is "healthy"; it returns False for
\* every other outcome, a raised exception included.
C10_HealthyIffOkAndHealthy ==
    response # NoResponse =>
        /\ health \in BOOLEAN
        /\ health <=> /\ response.kind = "response"
                      /\ response.code = 200
                      /\ response.body = "healthy"

\* A monitoring probe answered 200 with status "healthy".
C10_Witness ==
    /\ pc = "mon_sleep"
    /\ response = [kind |-> "response", code |-> 200, body |-> "healthy"]
    /\ health

----------------------------------------------------------------------------
StartPCs == {"ss_check", "ss_popen", "ss_assign"}
StartTrue == [fn |-> "start_service", val |-> TRUE]
StartFalse == [fn |-> "start_service", val |-> FALSE]
WaitTrue == [fn |-> "wait_for_startup", val |-> TRUE]
WaitFalse == [fn |-> "wait_for_startup", val |-> FALSE]

\* The step is one of the interrupted code itself: not the worker's exit (pc
\* stays), not a signal, not an exception that leaves the function.
OwnStep ==
    /\ pc' # pc
    /\ shCaller' # "handler"
    /\ raised' \in {"none", "start_service"}

\* C11: the step of start_service that finds the owned handle alive returns
\* True, spawns nothing and leaves the handle and the running flag as they
\* were.
C11_StartOnLiveHandleIsNoOp ==
    [][(pc = "ss_check" /\ Alive(process) /\ OwnStep)
          => /\ returned' = StartTrue
             /\ worker' = worker
             /\ process' = process
             /\ running' = running]_vars

\* start_service has just returned True for the unhealthy worker it was asked
\* to replace, which is still the only worker ever spawned.
C11_Witness ==
    /\ returned = StartTrue
    /\ caller = "unhealthy"
    /\ Spawned = 1
    /\ process = 1
    /\ worker[1] = "alive"

\* C12: start_service returns False when the script is missing (it leaves
\* its first test without going on to Popen) and when Popen raises; the
\* exception is caught inside start_service; and a call that returns False
\* has created no process and left self.process as it was.
C12_FailedStartKeepsHandle ==
    [][/\ (pc = "ss_check" /\ ~Alive(process) /\ OwnStep /\ pc' # "ss_popen")
             => returned' = StartFalse
       /\ (pc = "ss_popen" /\ OwnStep /\ raised' = "start_service")
             => returned' = StartFalse
       /\ (pc \in StartPCs /\ pc' # pc /\ returned' = StartFalse)
             => /\ process' = process
                /\ worker' = worker
                /\ raised' \in {"none", "start_service"}
                /\ pc' # "mon_except"]_vars

\* Popen raised during a restart: False is returned and the handle of the
\* dead first worker is still the one owned.
C12_Witness ==
    /\ returned = StartFalse
    /\ raised = "start_service"
    /\ process = 1
    /\ Spawned = 1

\* C13: the probe of wait_for_startup that is healthy ends the call at once
\* with True: round i is not followed by a sleep or another probe, so a worker
\* first healthy on probe k = i + 1 costs exactly k probes; and True is
\* returned in no other way.
C13_ReturnsOnFirstHealthyProbe ==
    [][/\ (pc = "ws_probe" /\ health')
             => /\ returned' = WaitTrue
                /\ pc' \notin WaitPCs
                /\ i' = i
                /\ i + 1 <= MaxWait
       /\ (pc \in WaitPCs /\ returned' = WaitTrue /\ pc' # pc)
             => (pc = "ws_probe" /\ health')]_vars

\* True was returned on the second probe, before the last round.
C13_Witness ==
    /\ returned = WaitTrue
    /\ i = 1
    /\ i + 1 < MaxWait
    /\ Alive(process)

\* C14: the poll of wait_for_startup that finds the worker exited ends the
\* call at once with False, in whatever round.
C14_ReturnsFalseOnExit ==
    [][(pc = "ws_poll" /\ process # None /\ worker[process] = "exited"
            /\ OwnStep)
          => /\ returned' = WaitFalse
             /\ pc' \notin WaitPCs
             /\ i' = i]_vars

\* False was returned in the first round of the startup wait of run(), the
\* worker having exited.
C14_Witness ==
    /\ returned = WaitFalse
    /\ caller = "run"
    /\ i = 0
    /\ worker[process] = "exited"

\* C15: wait_for_startup never starts a round beyond max_wait, it always
\* ends, and the sleep of the last round is followed by False.
C15_WaitIsBounded ==
    /\ [](pc \in WaitPCs => i < MaxWait)
    /\ (pc \in WaitPCs) ~> (pc \notin WaitPCs)
    /\ [][(pc = "ws_sleep" /\ i + 1 = MaxWait /\ OwnStep)
            => (returned' = WaitFalse /\ pc' \notin WaitPCs)]_vars

\* False was returned after max_wait unhealthy probes of a worker that is alive.
C15_Witness ==
    /\ returned = WaitFalse
    /\ i = MaxWait - 1
    /\ Alive(process)

\* C16: once a restart has failed, the thread is never again in
\* start_service, wait_for_startup or the monitor loop, and no worker is
\* spawned.
C16_NoRestartAfterFailedRestart ==
    [][("Failed to restart service" \in log)
          => /\ pc' \notin StartPCs \cup WaitPCs \cup MonitorPCs
             /\ Spawned' = Spawned]_vars

\* The restart of the second worker failed and the supervisor has stopped
\* without a third.
C16_Witness ==
    /\ Stopped
    /\ "Failed to restart service" \in log
    /\ Spawned = 2
    /\ process = 2

\* C17 as stated: an exception raised in an iteration of the monitor loop,
\* the one raised while starting the worker included, is followed by a
\* further iteration unless a signal stops the supervisor.
C17_AnyExceptionLeadsToNextIteration ==
    (\/ raised = "monitor_service"
     \/ raised = "start_service" /\ caller # "run")
        ~> (pc = "mon_poll" \/ shCaller = "handler")

\* C17, amended: an exception that reaches the except clause of the monitor
\* loop (raised while polling, terminating or waiting) is logged there and is
\* followed by a further iteration, the running flag still set, unless a
\* signal stops the supervisor.  An exception raised while starting is caught
\* inside start_service and is not covered.
C17_CaughtExceptionLeadsToNextIteration ==
    /\ [][(raised' = "monitor_service")
             => (pc' = "mon_except" /\ "Monitor error" \in log')]_vars
    /\ (raised = "monitor_service")
          ~> ((pc = "mon_poll" /\ running) \/ shCaller = "handler")

\* The iteration after the one that raised is under way.
C17_Witness ==
    /\ pc = "mon_poll"
    /\ running
    /\ excCount = 1
    /\ "Monitor error" \in log

\* C18: when monitoring resumes after the restart of an unhealthy worker,
\* the handle is not that of the worker that was sent SIGTERM, and that
\* worker has exited.
C18_ResumesWithFreshWorker ==
    (pc = "mon_sleep" /\ returned = WaitTrue /\ caller = "unhealthy")
        => /\ process \notin termSent
           /\ \A w \in termSent : worker[w] = "exited"

\* C19: a probe that times out is an unhealthy probe and sends the monitor to
\* the terminate step; the probe always ends, and the terminate step is
\* then taken unless the operation raises or a signal stops the supervisor.
C19_HungWorkerDoesNotStallMonitor ==
    /\ [][(pc = "mon_probe" /\ response' = Timeout)
             => (~health' /\ pc' = "mon_term" /\ raised' = "none")]_vars
    /\ (pc = "mon_probe") ~> (pc # "mon_probe")
    /\ (pc = "mon_term" /\ response = Timeout)
          ~> \/ pc = "mon_grace"
             \/ raised = "monitor_service"
             \/ shCaller = "handler"

\* The probe of a live worker timed out and the monitor is about to
\* terminate it.
C19_Witness ==
    /\ pc = "mon_term"
    /\ response = Timeout
    /\ Alive(process)

\* C20: once shutdown() has been entered, or a signal has been delivered and
\* the handler is about to enter it, no worker is spawned.
C20_NoSpawnAfterShutdown ==
    [][(shutdownCalls > 0 \/ pc \in ShutdownPCs) => Spawned' = Spawned]_vars

\* The signal arrived during the restart of the dead first worker, and the
\* supervisor stopped without a second one.
C20_Witness ==
    /\ Stopped
    /\ sigCount = 1
    /\ caller = "died"
    /\ Spawned = 1
    /\ "Failed to restart service" \notin log
    /\ "Monitor error" \notin log

----------------------------------------------------------------------------
====
